---- MODULE Spec2Model ----
(***************************************************************************)
(* FineImgur relay (src/index.js): one Node.js process that answers GET    *)
(* requests from a disk cache, fetches misses from the upstream host into  *)
(* a staging file, publishes the staging file by rename, writes a metadata *)
(* sidecar, and evicts oldest-modified files when the directory exceeds    *)
(* maxCacheBytes.                                                          *)
(*                                                                         *)
(* Every JavaScript callback is one action (the event loop runs a callback *)
(* to completion).  What Node performs outside the callbacks is a separate *)
(* action each: the open of fs.createWriteStream, the write behind         *)
(* fileStream.write, the open and read behind createReadStream().pipe(res).*)
(* An exception that leaves a callback, and an 'error' event without a     *)
(* listener, end the process (crashed).                                    *)
(***************************************************************************)
EXTENDS Integers, Sequences, FiniteSets, TLC

\* ------------------------------------------------------------------ bounds
MaxRequests == 2        \* requests that arrive in one run
MaxInFlight == 2        \* requests with work outstanding at the same time
MaxChunk == 2           \* largest upstream 'data' chunk, in bytes
MaxDeclared == 3        \* largest Content-Length the upstream declares
MaxDisconnects == 1     \* inbound clients that disconnect in one run
MaxDeleteFailures == 1  \* unlinkSync calls that fail in one eviction pass

\* ------------------------------------------------- configuration (scaled)
maxCacheBytes == 3
maxDownloadBytes == 2

Req == 1 .. MaxRequests

\* ------------------------------------------------------------ request input
\* req.url as the segments path.extname tells apart: the text up to the last
\* dot, then the extension.  "/" is the root path; BadUrl is a request target
\* the URL constructor rejects.
RootUrl == <<"/">>
BadUrl == <<"//[">>
ImageUrls == {<<"/abc123", ".png">>, <<"/def456", ".jpg">>, <<"/gallery", ".json">>}
Urls == ImageUrls \cup {RootUrl, BadUrl}
Methods == {"GET", "POST"}

\* path.extname(requestPath) || ''
extname(requestPath) == IF Len(requestPath) > 1 THEN requestPath[Len(requestPath)] ELSE ""

\* crypto.createHash('sha256').update(requestPath).digest('hex'): one opaque
\* digest per input string, distinct inputs giving distinct digests.
sha256(requestPath) == <<"sha256", requestPath>>

\* cacheKeyFromPath: `${hash}${extension}`, a file name of two segments.
cacheKeyFromPath(requestPath) == <<sha256(requestPath), extname(requestPath)>>

\* `${cacheFile}.json`
metadataPathFor(cacheFile) == Append(cacheFile, ".json")

\* `${cacheFile}.tmp`
tempFileFor(cacheFile) == Append(cacheFile, ".tmp")

\* file.endsWith('.json')
endsWithJson(file) == file[Len(file)] = ".json"

Keys == {cacheKeyFromPath(u) : u \in ImageUrls}
DataNames == Keys \cup {tempFileFor(k) : k \in Keys}
SidecarNames == {metadataPathFor(k) : k \in Keys}
AllNames == DataNames \cup SidecarNames

\* --------------------------------------------------------------- file system
\* The cache directory: dir maps a payload or staging name to the inode it is
\* linked to (NoIno: no such file); inode holds each file's bytes; mtimes lists
\* the files from the oldest mtime to the newest (the program reads mtimes only
\* to sort by them); meta holds the sidecars, which are written and read whole.
\* A byte is the number of the request whose upstream response carried it (0:
\* a byte that was on disk at start, or a hole).
NoIno == -1
StartIno == 0
Ino == {StartIno} \cup Req
BlankInode == [data |-> <<>>]
NoMeta == [kind |-> "none", contentType |-> "", size |-> 0]
CorruptMeta == [kind |-> "corrupt", contentType |-> "", size |-> 0]
Metadata(contentType, size) == [kind |-> "ok", contentType |-> contentType, size |-> size]

VARIABLES
  req,        \* per request: the closure variables of proxyRequest; declared is
              \* the Content-Length of the upstream response while the relay
              \* holds that response and has read the header (NoCL otherwise);
              \* origin is the request that had cached the entry found on disk
              \* when this request looked its key up (0: none of this run);
              \* rival is a request that was fetching the same path when this
              \* one missed (0: none); disconnected: the inbound client has
              \* gone away
  fileStream, \* per request: the fs.WriteStream on the staging file
  res,        \* per request: the http.ServerResponse
  dir, inode, meta,
  mtimes,     \* the inodes in use, in ascending order of mtime
  crashed,    \* the process ended on an uncaught exception
  warned,     \* one element per console.warn of enforceCacheLimit: <<r, path>>
              \* when the pass run by request r could not unlink path
  cachedBy    \* per key: the request whose ingestion wrote the entry now on disk

vars == <<req, fileStream, res, dir, inode, meta, mtimes, crashed, warned, cachedBy>>

\* fs.existsSync on a payload, staging or sidecar path
existsSync(d, m, name) ==
  IF name \in DOMAIN d THEN d[name] # NoIno
  ELSE IF name \in DOMAIN m THEN m[name].kind # "none"
  ELSE FALSE

\* fs.readdirSync(cacheDir)
readdirSync(d, m) == {n \in AllNames : existsSync(d, m, n)}

\* stats.size
sizeOf(ino, i) == Len(ino[i].data)

\* readMetadata without its try/catch and without JSON.parse rejecting a
\* sidecar cut short: whatever the sidecar holds is the metadata.
readMetadataUnguarded(m, cacheFile) == m[metadataPathFor(cacheFile)]

\* readMetadata: the parsed sidecar, or null (NoMeta) when the read or
\* JSON.parse throws.
readMetadata(m, cacheFile) ==
  LET p == metadataPathFor(cacheFile) IN
  IF p \in DOMAIN m /\ m[p].kind = "ok" THEN m[p] ELSE NoMeta

\* fs.renameSync(from, to), from existing: the name `to` now refers to the
\* file, whatever it referred to before.
renameSync(d, from, to) == [d EXCEPT ![to] = d[from], ![from] = NoIno]

\* The sidecar write left out.
writeMetadataSkipped(m, cacheFile, metadata) == m

\* writeMetadata
writeMetadata(m, cacheFile, metadata) == [m EXCEPT ![metadataPathFor(cacheFile)] = metadata]

\* ------------------------------------------------------------------ eviction
\* files.sort((a, b) => a.mtime - b.mtime): the names in ascending mtime.
sortByMtime(names, d, order) ==
  LET inos == SelectSeq(order, LAMBDA i : \E n \in names : d[n] = i)
  IN [k \in 1 .. Len(inos) |-> CHOOSE n \in names : d[n] = inos[k]]

\* The for loop of enforceCacheLimit over the sorted files.  fail is the set of
\* paths whose unlinkSync throws in this pass.  st = [dir, meta, warned].
RECURSIVE evictLoop(_, _, _, _, _)
evictLoop(files, currentSize, st, ino, fail) ==
  IF files = <<>> \/ currentSize <= maxCacheBytes THEN st
  ELSE
    LET entry == Head(files)
        metaPath == metadataPathFor(entry)
        unlinked == [st.dir EXCEPT ![entry] = NoIno]
    IN
    IF entry \in fail
    THEN evictLoop(Tail(files), currentSize, [st EXCEPT !.warned = @ \cup {entry}], ino, fail)
    ELSE IF existsSync(unlinked, st.meta, metaPath)
    THEN IF metaPath \in fail
         THEN evictLoop(Tail(files), currentSize,
                        [st EXCEPT !.dir = unlinked, !.warned = @ \cup {metaPath}], ino, fail)
         ELSE evictLoop(Tail(files), currentSize - sizeOf(ino, st.dir[entry]),
                        [st EXCEPT !.dir = unlinked, !.meta[metaPath] = NoMeta], ino, fail)
    ELSE evictLoop(Tail(files), currentSize - sizeOf(ino, st.dir[entry]),
                   [st EXCEPT !.dir = unlinked], ino, fail)

\* The eviction pass left out.
enforceCacheLimitSkipped(st, ino, order, fail) == st

\* The files enforceCacheLimit lists: every directory entry whose name does
\* not end in '.json'.
listedFiles(d, m) == {n \in readdirSync(d, m) : ~endsWithJson(n)}

RECURSIVE sumSizes(_, _, _)
sumSizes(names, d, ino) ==
  IF names = {} THEN 0
  ELSE LET n == CHOOSE x \in names : TRUE
       IN sizeOf(ino, d[n]) + sumSizes(names \ {n}, d, ino)

\* enforceCacheLimit
enforceCacheLimit(st, ino, order, fail) ==
  LET files == listedFiles(st.dir, st.meta)
      totalSize == sumSizes(files, st.dir, ino)
  IN IF totalSize <= maxCacheBytes THEN st
     ELSE evictLoop(sortByMtime(files, st.dir, order), totalSize, st, ino, fail)

FailChoices == {f \in SUBSET AllNames : Cardinality(f) <= MaxDeleteFailures}

\* ------------------------------------------------------------------ response
NoCL == -1   \* no Content-Length header

\* renderFailureSvg: the document as its tokens, the reason text among them.
renderFailureSvg(reason) == <<"<svg>", "FineImgur", reason, "</svg>">>

\* Buffer.byteLength(svg)
byteLength(svg) == Len(svg)

FreshRes ==
  [headersSent |-> FALSE, status |-> 0, contentType |-> "", contentLength |-> NoCL,
   body |-> <<>>, ended |-> FALSE, pipe |-> "none"]

\* sendFailure's writeHead and end, on a response whose headers are not sent.
sendFailure(rs, reason, statusCode) ==
  LET svg == renderFailureSvg(reason) IN
  [rs EXCEPT !.headersSent = TRUE, !.status = statusCode,
             !.contentType = "image/svg+xml; charset=utf-8",
             !.contentLength = byteLength(svg), !.body = svg, !.ended = TRUE]

\* res.writeHead(status, {'Content-Type': 'text/plain; charset=utf-8'}); res.end(text)
sendText(rs, statusCode, text) ==
  [rs EXCEPT !.headersSent = TRUE, !.status = statusCode,
             !.contentType = "text/plain; charset=utf-8", !.body = <<text>>, !.ended = TRUE]

\* The writeHead(200, ...) and createReadStream(cacheFile).pipe(res) shared by
\* serveCached and the 'end' handler: headers now, the body when the read
\* stream has opened the file.
sendImage(rs, contentType, size) ==
  [rs EXCEPT !.headersSent = TRUE, !.status = 200, !.contentType = contentType,
             !.contentLength = size, !.pipe = "pending"]

\* A file's mtime becomes the newest: utimesSync(file, now, now), a write, a
\* create or a truncate.
touch(order, i) == Append(SelectSeq(order, LAMBDA j : j # i), i)

\* serveCached, called when cacheFile exists: [served, res, mtimes].
serveCached(cacheFile, rs, d, m, ino, order) ==
  LET metadata == readMetadata(m, cacheFile) IN
  IF metadata = NoMeta \/ d[cacheFile] = NoIno
  THEN [served |-> FALSE, res |-> rs, mtimes |-> order]
  ELSE [served |-> TRUE,
        res |-> sendImage(rs, IF metadata.contentType # "" THEN metadata.contentType
                              ELSE "application/octet-stream",
                          sizeOf(ino, d[cacheFile])),
        mtimes |-> touch(order, d[cacheFile])]

\* ------------------------------------------------------------ request state
FreshReq ==
  [pc |-> "new", url |-> RootUrl, upstream |-> FALSE, declared |-> NoCL,
   contentType |-> "", downloaded |-> 0, aborted |-> FALSE,
   published |-> FALSE, origin |-> 0, rival |-> 0, disconnected |-> FALSE]

\* The request, if any, that is fetching url at this moment: it missed on the
\* same key and has not finished.
inFlightFor(url, rq) ==
  LET rs == {q \in Req : rq[q].pc \in {"fetch", "ingest"} /\ rq[q].url = url}
  IN IF rs = {} THEN 0 ELSE CHOOSE q \in rs : TRUE

NoStream == [state |-> "none", destroyed |-> FALSE, ending |-> FALSE, buf |-> <<>>,
             fd |-> NoIno, pos |-> 0]

\* The bytes of the upstream body the relay has read: those the 'data' handler
\* counted, or the whole declared body once a resumed response has ended.
bodyRead(r) ==
  IF req[r].pc = "drained" /\ req[r].declared # NoCL THEN req[r].declared ELSE req[r].downloaded

cacheFileOf(r) == cacheKeyFromPath(req[r].url)
tempFileOf(r) == tempFileFor(cacheFileOf(r))

\* A request with work outstanding: an upstream exchange, a write stream not
\* yet closed, or a read stream not yet piped.
Busy(r) ==
  \/ req[r].pc \in {"fetch", "ingest", "drain"}
  \/ fileStream[r].state \in {"opening", "open"}
  \/ res[r].pipe = "pending"

\* The kernel frees an inode that no name and no open descriptor refers to.
inUse(i, d, streams) ==
  \/ \E n \in DataNames : d[n] = i
  \/ \E r \in Req : streams[r].state = "open" /\ streams[r].fd = i

reclaim(ino, d, streams) == [i \in Ino |-> IF inUse(i, d, streams) THEN ino[i] ELSE BlankInode]

reclaimTimes(order, d, streams) == SelectSeq(order, LAMBDA i : inUse(i, d, streams))

\* fileStream.destroy(): queued writes are dropped; a stream still opening
\* closes its descriptor once the open has completed.
destroyStream(s) ==
  IF s.state = "opening" THEN [s EXCEPT !.destroyed = TRUE, !.buf = <<>>]
  ELSE [NoStream EXCEPT !.state = "closed"]

\* fileStream.end(): the stream closes once the queued writes are on disk.
endStream(s) ==
  IF s.state = "open" /\ s.buf = <<>> THEN [NoStream EXCEPT !.state = "closed"]
  ELSE [s EXCEPT !.ending = TRUE]

\* write(2) of chunk at offset pos: a gap below pos reads as zero bytes.
writeAt(data, pos, chunk) ==
  LET n == IF pos + Len(chunk) > Len(data) THEN pos + Len(chunk) ELSE Len(data)
  IN [i \in 1 .. n |->
        IF i > pos /\ i <= pos + Len(chunk) THEN chunk[i - pos]
        ELSE IF i <= Len(data) THEN data[i] ELSE 0]

\* contentType.startsWith('image/')
startsWithImage(contentType) == contentType \in {"image/png", "image/jpeg"}

StatusCodes == {200, 404}
ContentTypes == {"image/png", "text/html", ""}
ContentLengths == {NoCL} \cup (0 .. MaxDeclared)

\* `Imgur responded with status ${proxyRes.statusCode}.`
statusReason(statusCode) ==
  CASE statusCode = 404 -> "Imgur responded with status 404."
    [] statusCode = 200 -> "Imgur responded with status 200."
    [] OTHER -> "Imgur responded with status undefined."

\* proxyRes.statusCode || 502
mirroredStatus(statusCode) == IF statusCode # 0 THEN statusCode ELSE 502

\* sendFailure's statusCode = 413 default
defaultFailureStatus == 413

\* ------------------------------------------------------------------- start
\* The cache directory the process finds at start: empty, or one complete
\* entry of an earlier run.
StartEntry == cacheKeyFromPath(<<"/abc123", ".png">>)
StartData == <<0, 0>>
EmptyDir == [n \in DataNames |-> NoIno]
EmptyMeta == [n \in SidecarNames |-> NoMeta]
EmptyInodes == [i \in Ino |-> BlankInode]

InitRest ==
  /\ req = [r \in Req |-> FreshReq]
  /\ fileStream = [r \in Req |-> NoStream]
  /\ res = [r \in Req |-> FreshRes]
  /\ crashed = FALSE
  /\ warned = {}
  /\ cachedBy = [k \in Keys |-> 0]

Init ==
  /\ InitRest
  /\ \/ dir = EmptyDir /\ inode = EmptyInodes /\ meta = EmptyMeta /\ mtimes = <<>>
     \/ /\ dir = [EmptyDir EXCEPT ![StartEntry] = StartIno]
        /\ inode = [EmptyInodes EXCEPT ![StartIno] = [data |-> StartData]]
        /\ mtimes = <<StartIno>>
        /\ meta = [EmptyMeta EXCEPT ![metadataPathFor(StartEntry)] = Metadata("image/png", Len(StartData))]

\* The declared-length check left out: every 200 image response is ingested.
declaredOversizeUnchecked(contentLengthHeader) == FALSE

\* if (contentLengthHeader) { ... Number.isFinite(contentLength) &&
\* contentLength > config.maxDownloadBytes }
declaredOversize(contentLengthHeader) ==
  contentLengthHeader # NoCL /\ contentLengthHeader > maxDownloadBytes

\* The cache directory an interrupted earlier run leaves behind: a payload whose
\* sidecar was never written, a payload with a sidecar cut short, or a sidecar
\* whose payload is gone.
InitLeftover ==
  /\ InitRest
  /\ \/ /\ dir = [EmptyDir EXCEPT ![StartEntry] = StartIno]
        /\ inode = [EmptyInodes EXCEPT ![StartIno] = [data |-> StartData]]
        /\ mtimes = <<StartIno>>
        /\ meta \in {EmptyMeta, [EmptyMeta EXCEPT ![metadataPathFor(StartEntry)] = CorruptMeta]}
     \/ /\ dir = EmptyDir /\ inode = EmptyInodes /\ mtimes = <<>>
        /\ meta = [EmptyMeta EXCEPT ![metadataPathFor(StartEntry)] = Metadata("image/png", Len(StartData))]

\* The method check left out: any method is treated as GET.
resolveAnyMethod(method, url) ==
  IF url = RootUrl THEN "root" ELSE IF url = BadUrl THEN "invalid" ELSE "lookup"

\* The head of proxyRequest: what the request is, before any cache or network
\* work.
resolve(method, url) ==
  IF method # "GET" THEN "method not allowed"
  ELSE IF url = RootUrl THEN "root"
  ELSE IF url = BadUrl THEN "invalid"
  ELSE "lookup"

\* ----------------------------------------------------------------- actions
\* proxyRequest(req, res): one inbound request, up to proxyReq.end().
proxyRequest(r, method, url) ==
  /\ ~crashed
  /\ req[r].pc = "new"
  /\ \A q \in Req : q < r => req[q].pc # "new"
  /\ Cardinality({q \in Req : Busy(q)}) < MaxInFlight
  /\ UNCHANGED <<fileStream, dir, inode, meta, crashed, warned, cachedBy>>
  /\ IF resolve(method, url) = "method not allowed"
     THEN /\ res' = [res EXCEPT ![r] = sendText(@, 405, "Only GET supported")]
          /\ req' = [req EXCEPT ![r].pc = "closed"]
          /\ UNCHANGED mtimes
     ELSE IF resolve(method, url) = "root"
     THEN /\ res' = [res EXCEPT ![r] = sendText(@, 200, "FineImgur relay is running.")]
          /\ req' = [req EXCEPT ![r].pc = "closed", ![r].url = url]
          /\ UNCHANGED mtimes
     ELSE IF resolve(method, url) = "invalid"
     THEN /\ res' = [res EXCEPT ![r] = sendFailure(@, "Invalid request URL.", defaultFailureStatus)]
          /\ req' = [req EXCEPT ![r].pc = "closed", ![r].url = url]
          /\ UNCHANGED mtimes
     ELSE LET cacheFile == cacheKeyFromPath(url)
              hit == IF existsSync(dir, meta, cacheFile)
                     THEN serveCached(cacheFile, res[r], dir, meta, inode, mtimes)
                     ELSE [served |-> FALSE, res |-> res[r], mtimes |-> mtimes]
          IN IF hit.served
             THEN /\ res' = [res EXCEPT ![r] = hit.res]
                  /\ mtimes' = hit.mtimes
                  /\ req' = [req EXCEPT ![r].pc = "closed", ![r].url = url,
                                        ![r].origin = cachedBy[cacheFile]]
             ELSE /\ req' = [req EXCEPT ![r].pc = "fetch", ![r].url = url, ![r].upstream = TRUE,
                                        ![r].origin = cachedBy[cacheFile],
                                        ![r].rival = inFlightFor(url, req)]
                  /\ UNCHANGED <<res, mtimes>>

\* The callback of client.request: the upstream response head.
onResponse(r, statusCode, contentTypeHeader, contentLengthHeader) ==
  /\ ~crashed
  /\ req[r].pc = "fetch"
  /\ UNCHANGED <<dir, inode, meta, mtimes, crashed, warned, cachedBy>>
  /\ IF statusCode # 200
     THEN /\ res' = [res EXCEPT ![r] = sendFailure(@, statusReason(statusCode), mirroredStatus(statusCode))]
          /\ req' = [req EXCEPT ![r].pc = "drain"]
          /\ UNCHANGED fileStream
     ELSE IF ~startsWithImage(contentTypeHeader)
     THEN /\ res' = [res EXCEPT ![r] = sendFailure(@, "Imgur response was not an image.", defaultFailureStatus)]
          /\ req' = [req EXCEPT ![r].pc = "drain"]
          /\ UNCHANGED fileStream
     ELSE IF declaredOversize(contentLengthHeader)
     THEN /\ res' = [res EXCEPT ![r] = sendFailure(@, "Image exceeds maximum download size.", defaultFailureStatus)]
          /\ req' = [req EXCEPT ![r].pc = "drain", ![r].declared = contentLengthHeader,
                                ![r].contentType = contentTypeHeader]
          /\ UNCHANGED fileStream
     ELSE /\ fileStream' = [fileStream EXCEPT ![r] = [NoStream EXCEPT !.state = "opening"]]
          /\ req' = [req EXCEPT ![r].pc = "ingest", ![r].declared = contentLengthHeader,
                                ![r].contentType = contentTypeHeader,
                                ![r].downloaded = 0, ![r].aborted = FALSE]
          /\ UNCHANGED res

\* proxyRes.resume(): the body of a refused response is read to its end and
\* discarded.
onResumed(r) ==
  /\ ~crashed
  /\ req[r].pc = "drain"
  /\ req' = [req EXCEPT ![r].pc = "drained"]
  /\ UNCHANGED <<fileStream, res, dir, inode, meta, mtimes, crashed, warned, cachedBy>>

\* A chunk of n bytes of the upstream body of request r.
chunkOf(r, n) == [i \in 1 .. n |-> r]

\* proxyRes.on('data'): the HTTP parser delivers no byte beyond a declared
\* Content-Length.
onData(r, n) ==
  /\ ~crashed
  /\ req[r].pc = "ingest"
  /\ req[r].declared = NoCL \/ req[r].downloaded + n <= req[r].declared
  /\ LET downloaded == req[r].downloaded + n
         tempFile == tempFileOf(r)
     IN
     IF downloaded > maxDownloadBytes /\ ~req[r].aborted
     THEN \* proxyRes.destroy(); fileStream.destroy(); unlink; sendFailure
          LET streams == [fileStream EXCEPT ![r] = destroyStream(@)]
              unlinked == IF existsSync(dir, meta, tempFile)
                          THEN [dir EXCEPT ![tempFile] = NoIno] ELSE dir
          IN /\ req' = [req EXCEPT ![r].downloaded = downloaded, ![r].aborted = TRUE,
                                   ![r].pc = "closed", ![r].declared = NoCL]
             /\ fileStream' = streams
             /\ dir' = unlinked
             /\ inode' = reclaim(inode, unlinked, streams)
             /\ mtimes' = reclaimTimes(mtimes, unlinked, streams)
             /\ IF res[r].headersSent
                THEN crashed' = TRUE /\ UNCHANGED res
                ELSE /\ res' = [res EXCEPT ![r] = sendFailure(@, "Image exceeds maximum download size.",
                                                              defaultFailureStatus)]
                     /\ UNCHANGED crashed
     ELSE /\ req' = [req EXCEPT ![r].downloaded = downloaded]
          /\ fileStream' = IF ~req[r].aborted
                           THEN [fileStream EXCEPT ![r].buf = Append(@, chunkOf(r, n))]
                           ELSE fileStream
          /\ UNCHANGED <<res, dir, inode, mtimes, crashed>>
  /\ UNCHANGED <<meta, warned, cachedBy>>

\* proxyRes.on('end'): publish, write the sidecar, evict, answer.  fail is the
\* set of paths whose unlinkSync throws during the eviction pass, paths that
\* exist when the pass runs.  renameSync
\* throws when the staging path does not exist, statSync when the eviction pass
\* has removed the published file, writeHead when the headers are sent already.
onEnd(r, fail) ==
  /\ ~crashed
  /\ req[r].pc = "ingest"
  /\ \A p \in fail : existsSync(dir, meta, p) \/ p \in {cacheFileOf(r), metadataPathFor(cacheFileOf(r))}
  /\ req[r].declared = NoCL \/ req[r].downloaded = req[r].declared
  /\ IF req[r].aborted
     THEN /\ req' = [req EXCEPT ![r].pc = "closed"]
          /\ UNCHANGED <<fileStream, res, dir, inode, meta, mtimes, crashed, warned, cachedBy>>
     ELSE
     LET cacheFile == cacheFileOf(r)
         tempFile == tempFileOf(r)
         streams == [fileStream EXCEPT ![r] = endStream(@)]
     IN
     IF ~existsSync(dir, meta, tempFile)
     THEN /\ crashed' = TRUE
          /\ fileStream' = streams
          /\ req' = [req EXCEPT ![r].pc = "closed", ![r].declared = NoCL]
          /\ inode' = reclaim(inode, dir, streams)
          /\ mtimes' = reclaimTimes(mtimes, dir, streams)
          /\ UNCHANGED <<res, dir, meta, warned, cachedBy>>
     ELSE
     LET renamed == renameSync(dir, tempFile, cacheFile)
         written == writeMetadata(meta, cacheFile, Metadata(req[r].contentType, req[r].downloaded))
         st == enforceCacheLimit([dir |-> renamed, meta |-> written, warned |-> {}],
                                 inode, mtimes, fail)
     IN /\ req' = [req EXCEPT ![r].pc = "closed", ![r].declared = NoCL, ![r].published = TRUE]
        /\ fileStream' = streams
        /\ dir' = st.dir
        /\ meta' = st.meta
        /\ warned' = warned \cup {<<r, p>> : p \in st.warned}
        /\ inode' = reclaim(inode, st.dir, streams)
        /\ mtimes' = reclaimTimes(mtimes, st.dir, streams)
        /\ cachedBy' = [k \in Keys |-> IF st.dir[k] = NoIno THEN 0
                                       ELSE IF k = cacheFile THEN r ELSE cachedBy[k]]
        /\ IF ~existsSync(st.dir, st.meta, cacheFile) \/ res[r].headersSent
           THEN crashed' = TRUE /\ UNCHANGED res
           ELSE /\ res' = [res EXCEPT ![r] = sendImage(@, req[r].contentType,
                                                       sizeOf(inode, st.dir[cacheFile]))]
                /\ UNCHANGED crashed

\* proxyRes.on('error')
onError(r) ==
  /\ ~crashed
  /\ req[r].pc = "ingest"
  /\ IF req[r].aborted
     THEN /\ req' = [req EXCEPT ![r].pc = "closed"]
          /\ UNCHANGED <<fileStream, res, dir, inode, mtimes, crashed>>
     ELSE LET tempFile == tempFileOf(r)
              streams == [fileStream EXCEPT ![r] = destroyStream(@)]
              unlinked == IF existsSync(dir, meta, tempFile)
                          THEN [dir EXCEPT ![tempFile] = NoIno] ELSE dir
          IN /\ req' = [req EXCEPT ![r].pc = "closed", ![r].declared = NoCL]
             /\ fileStream' = streams
             /\ dir' = unlinked
             /\ inode' = reclaim(inode, unlinked, streams)
             /\ mtimes' = reclaimTimes(mtimes, unlinked, streams)
             /\ IF res[r].headersSent
                THEN crashed' = TRUE /\ UNCHANGED res
                ELSE /\ res' = [res EXCEPT ![r] = sendFailure(@, "Proxy error: aborted", defaultFailureStatus)]
                     /\ UNCHANGED crashed
  /\ UNCHANGED <<meta, warned, cachedBy>>

\* proxyReq.on('error'): the upstream request fails before a response arrives.
onRequestError(r) ==
  /\ ~crashed
  /\ req[r].pc = "fetch"
  /\ req' = [req EXCEPT ![r].pc = "closed"]
  /\ IF res[r].headersSent
     THEN crashed' = TRUE /\ UNCHANGED res
     ELSE /\ res' = [res EXCEPT ![r] = sendFailure(@, "Request failed: connect ECONNREFUSED",
                                                   defaultFailureStatus)]
          /\ UNCHANGED crashed
  /\ UNCHANGED <<fileStream, dir, inode, meta, mtimes, warned, cachedBy>>

\* The open(tempFile, 'w') that fs.createWriteStream started completes: the
\* file is created, or an existing one truncated.  A stream destroyed while
\* opening closes the descriptor at once.
fileOpened(r) ==
  /\ ~crashed
  /\ fileStream[r].state = "opening"
  /\ LET tempFile == tempFileOf(r)
         ino == IF dir[tempFile] = NoIno THEN r ELSE dir[tempFile]
         linked == [dir EXCEPT ![tempFile] = ino]
         streams == [fileStream EXCEPT ![r] =
                       IF @.destroyed THEN [NoStream EXCEPT !.state = "closed"]
                       ELSE [@ EXCEPT !.state = "open", !.fd = ino, !.pos = 0]]
     IN /\ dir' = linked
        /\ fileStream' = streams
        /\ inode' = reclaim([inode EXCEPT ![ino] = [data |-> <<>>]], linked, streams)
        /\ mtimes' = reclaimTimes(touch(mtimes, ino), linked, streams)
  /\ UNCHANGED <<req, res, meta, crashed, warned, cachedBy>>

\* One queued fileStream.write reaches the disk; after the last one an ended
\* stream closes.
fileWritten(r) ==
  /\ ~crashed
  /\ fileStream[r].state = "open"
  /\ fileStream[r].buf # <<>>
  /\ LET s == fileStream[r]
         chunk == Head(s.buf)
         rest == Tail(s.buf)
         streams == [fileStream EXCEPT ![r] =
                       IF rest = <<>> /\ s.ending
                       THEN [NoStream EXCEPT !.state = "closed"]
                       ELSE [s EXCEPT !.buf = rest, !.pos = s.pos + Len(chunk)]]
     IN /\ fileStream' = streams
        /\ inode' = reclaim([inode EXCEPT ![s.fd] = [data |-> writeAt(@.data, s.pos, chunk)]],
                             dir, streams)
        /\ mtimes' = reclaimTimes(touch(mtimes, s.fd), dir, streams)
  /\ UNCHANGED <<req, res, dir, meta, crashed, warned, cachedBy>>

\* fs.createReadStream(cacheFile).pipe(res): the read stream opens the file
\* and pipes it to the end; when the open fails the stream emits 'error', for
\* which nothing listens.
piped(r) ==
  /\ ~crashed
  /\ res[r].pipe = "pending"
  /\ LET cacheFile == cacheFileOf(r) IN
     IF existsSync(dir, meta, cacheFile)
     THEN /\ res' = [res EXCEPT ![r].body = inode[dir[cacheFile]].data, ![r].ended = TRUE,
                                ![r].pipe = "done"]
          /\ UNCHANGED crashed
     ELSE /\ res' = [res EXCEPT ![r].pipe = "failed"]
          /\ crashed' = TRUE
  /\ UNCHANGED <<req, fileStream, dir, inode, meta, mtimes, warned, cachedBy>>

Next ==
  \/ \E r \in Req, method \in Methods, url \in Urls : proxyRequest(r, method, url)
  \/ \E r \in Req, statusCode \in StatusCodes, contentTypeHeader \in ContentTypes,
        contentLengthHeader \in ContentLengths :
          onResponse(r, statusCode, contentTypeHeader, contentLengthHeader)
  \/ \E r \in Req : onResumed(r)
  \/ \E r \in Req, n \in 1 .. MaxChunk : onData(r, n)
  \/ \E r \in Req, fail \in FailChoices : onEnd(r, fail)
  \/ \E r \in Req : onError(r)
  \/ \E r \in Req : onRequestError(r)
  \/ \E r \in Req : fileOpened(r)
  \/ \E r \in Req : fileWritten(r)
  \/ \E r \in Req : piped(r)

Spec == Init /\ [][Next]_vars

\* The inbound client of request r goes away while the ingestion is in flight.
\* proxyRequest registers no listener on req or res for 'close' or 'aborted':
\* no code of the relay runs.
clientClosed(r) ==
  /\ ~crashed
  /\ req[r].pc = "ingest"
  /\ Cardinality({q \in Req : req[q].disconnected}) < MaxDisconnects
  /\ req' = [req EXCEPT ![r].disconnected = TRUE]
  /\ UNCHANGED <<fileStream, res, dir, inode, meta, mtimes, crashed, warned, cachedBy>>

NextDisconnect ==
  \/ Next
  \/ \E r \in Req : clientClosed(r)

\* The relay with inbound clients that may disconnect.
SpecDisconnect == Init /\ [][NextDisconnect]_vars

SpecLeftover == InitLeftover /\ [][Next]_vars

\* ------------------------------------------------------------------ claims

\* The cache entries: the keys whose payload file is in the directory.
entries(d) == {k \in Keys : d[k] # NoIno}
payloadBytes(d, ino) == sumSizes(entries(d), d, ino)

\* Request r's 'end' handler runs to the end of its eviction pass in this step.
publishes(r) == ~req[r].published /\ req'[r].published
\* ... and no deletion of that pass failed.
cleanPass(r) == \A p \in AllNames : <<r, p>> \notin warned'

\* The directory the pass of request r starts from: the staged file renamed
\* onto its key.
beforePass(r) == renameSync(dir, tempFileOf(r), cacheFileOf(r))

rank(i) == CHOOSE n \in 1 .. Len(mtimes) : mtimes[n] = i
olderThan(d, a, b) == rank(d[a]) < rank(d[b])

\* C1: after an eviction pass that completes without a delete failure, the
\* sizes of the cached payloads sum to at most maxCacheBytes.
C1_CacheBounded ==
  [][\A r \in Req : publishes(r) /\ cleanPass(r)
        => payloadBytes(dir', inode') <= maxCacheBytes]_vars

\* C2: a pass deletes nothing when the payloads already fit, and otherwise
\* deletes exactly the shortest prefix of the entries in ascending mtime order
\* that brings the payload total to at most maxCacheBytes.
C2_OldestFirstPrefix ==
  [][\A r \in Req : publishes(r) /\ cleanPass(r) =>
        LET d == beforePass(r)
            deleted == {k \in entries(d) : dir'[k] = NoIno}
            total == payloadBytes(d, inode)
            bytesOf(ks) == sumSizes(ks, d, inode)
        IN /\ total <= maxCacheBytes => deleted = {}
           /\ \A x \in deleted, k \in entries(d) \ deleted : olderThan(d, x, k)
           /\ total - bytesOf(deleted) <= maxCacheBytes
           /\ \A x \in deleted :
                total - bytesOf({y \in deleted : olderThan(d, y, x)}) > maxCacheBytes]_vars

\* C3: once a download has been aborted for exceeding maxDownloadBytes and all
\* of its file work has settled, the caller has the 413 failure image, nothing
\* was published for the request and no staging file of the request remains.
C3_OversizeLeavesNothing ==
  \A r \in Req :
    req[r].aborted /\ res[r].ended /\ fileStream[r].state = "closed"
      => /\ res[r].status = 413
         /\ ~req[r].published
         /\ dir[tempFileOf(r)] # r

\* Request r has written into the cache directory: it created a file that is
\* still there, or some file holds a byte of its download.
wroteToCache(r) ==
  \/ \E n \in DataNames : dir[n] = r
  \/ \E i \in Ino : \E c \in 1 .. Len(inode[i].data) : inode[i].data[c] = r

declaresOversize(r) == req[r].declared # NoCL /\ req[r].declared > maxDownloadBytes

\* C4 as the specification states it: a response declaring a Content-Length
\* above maxDownloadBytes is answered 413, no staging object is created, and
\* no byte of the body is read or written.
C4_NoBodyByteRead ==
  \A r \in Req : declaresOversize(r)
    => /\ res[r].ended /\ res[r].status = 413
       /\ fileStream[r] = NoStream
       /\ bodyRead(r) = 0
       /\ ~wroteToCache(r)

\* C4: a 200 image response declaring a Content-Length above maxDownloadBytes
\* is answered 413, no staging object is created and no byte of the body is
\* written to the cache directory or passed to a 'data' handler; the body is
\* drained and discarded.
C4_DeclaredOversizeRejected ==
  \A r \in Req : declaresOversize(r)
    => /\ res[r].ended /\ res[r].status = defaultFailureStatus
       /\ res[r].body = renderFailureSvg("Image exceeds maximum download size.")
       /\ fileStream[r] = NoStream
       /\ req[r].downloaded = 0
       /\ ~req[r].published
       /\ ~wroteToCache(r)
       /\ req[r].pc \in {"drain", "drained"}

C4_Witness ==
  \E r \in Req : declaresOversize(r) /\ req[r].pc = "drained" /\ bodyRead(r) > maxDownloadBytes

\* C5: a request that finds an entry cached by an earlier request of the run
\* is answered from disk without an upstream request, with the Content-Type,
\* Content-Length and body bytes the earlier response had.
C5_HitRepeatsFirstResponse ==
  \A r \in Req : req[r].origin # 0
    => /\ ~req[r].upstream
       /\ res[r].ended /\ res[req[r].origin].ended
            => /\ res[r].status = res[req[r].origin].status
               /\ res[r].contentType = res[req[r].origin].contentType
               /\ res[r].contentLength = res[req[r].origin].contentLength
               /\ res[r].body = res[req[r].origin].body

hasPayload(k) == dir[k] # NoIno
hasSidecar(k) == meta[metadataPathFor(k)].kind # "none"

\* C6 as the specification states it: with no step in progress, a key's
\* payload file exists if and only if its sidecar exists.
C6_PayloadIffSidecar == \A k \in Keys : hasPayload(k) <=> hasSidecar(k)

\* C6: with no step in progress, a key's payload file exists if and only if
\* its sidecar exists, except that a sidecar is left without its payload when
\* an eviction pass deleted the payload and failed to delete the sidecar.
C6_PayloadIffSidecarUnlessDeleteFailed ==
  \A k \in Keys :
    \/ hasPayload(k) <=> hasSidecar(k)
    \/ /\ ~hasPayload(k) /\ hasSidecar(k)
       /\ \E r \in Req : <<r, metadataPathFor(k)>> \in warned

C6_Witness ==
  \E r, q \in Req :
    /\ req[r].published /\ req[q].published
    /\ cacheFileOf(r) # cacheFileOf(q)
    /\ ~hasPayload(cacheFileOf(r)) /\ ~hasSidecar(cacheFileOf(r))
    /\ hasPayload(cacheFileOf(q)) /\ hasSidecar(cacheFileOf(q))

\* A key in an inconsistent state: a sidecar without a payload, or a payload
\* whose sidecar is missing or does not parse.
inconsistent(k) ==
  \/ ~hasPayload(k) /\ hasSidecar(k)
  \/ hasPayload(k) /\ meta[metadataPathFor(k)].kind # "ok"

\* Request r arrives in this step as a GET for an image path.
looksUp(r) == req[r].pc = "new" /\ req'[r].pc # "new" /\ req'[r].url \in ImageUrls

\* C7: a lookup for a key in an inconsistent state is a miss and not an error:
\* it writes no response header, serves nothing from disk, and the request goes
\* on to fetch from the upstream.
C7_InconsistentIsMiss ==
  [][\A r \in Req : looksUp(r) /\ inconsistent(cacheKeyFromPath(req'[r].url))
        => /\ req'[r].pc = "fetch" /\ req'[r].upstream
           /\ res'[r] = FreshRes
           /\ mtimes' = mtimes
           /\ ~crashed']_vars

C7_Witness ==
  \E r \in Req :
    /\ req[r].pc = "fetch" /\ res[r] = FreshRes
    /\ hasPayload(cacheFileOf(r))
    /\ meta[metadataPathFor(cacheFileOf(r))] = CorruptMeta

\* C8: every 200 response that has been streamed delivered a body of exactly
\* the number of bytes its Content-Length declares, and no 200 response is
\* left without its body.
C8_BodyMatchesContentLength ==
  \A r \in Req :
    res[r].status = 200 /\ res[r].contentLength # NoCL /\ res[r].pipe # "pending"
      => /\ res[r].ended
         /\ Len(res[r].body) = res[r].contentLength

\* Request r is a GET for a non-root path that the relay has accepted.
accepted(r) == req[r].pc # "new" /\ req[r].url # RootUrl

\* C9: no failure leaves an accepted GET request without a response: the
\* process does not end while such a request is unanswered.
C9_NoRequestLeftUnanswered ==
  ~(crashed /\ \E r \in Req : accepted(r) /\ ~res[r].ended)

failureReason(rs) == rs.body[3]
isFailure(rs) == rs.ended /\ rs.contentType = "image/svg+xml; charset=utf-8"
transportReasons == {"Request failed: connect ECONNREFUSED", "Proxy error: aborted"}

\* C10: the status of a failure response identifies the failure class: a
\* non-200 upstream status is mirrored, an oversize failure gives 413, and an
\* upstream transport failure gives a 502-class status.
C10_StatusIdentifiesFailureClass ==
  \A r \in Req : isFailure(res[r])
    => /\ failureReason(res[r]) = statusReason(404) => res[r].status = 404
       /\ failureReason(res[r]) = "Image exceeds maximum download size." => res[r].status = 413
       /\ failureReason(res[r]) \in transportReasons => res[r].status \in 500 .. 599

\* The file work of request r is over: its write stream never opened a file or
\* has closed it.
settled(r) == fileStream[r].state \in {"none", "closed"}

\* C11: after the inbound client of an ingesting request has disconnected, no
\* further chunk is written for that request, nothing is published from it,
\* and once its work is over no staging file of it remains.
C11_DisconnectTearsDown ==
  [][\A r \in Req : req[r].disconnected
        => /\ Len(fileStream'[r].buf) <= Len(fileStream[r].buf)
           /\ ~publishes(r)
           /\ req[r].pc = "closed" /\ settled(r) => dir[tempFileOf(r)] # r]_vars

\* The 'end' handler of request r's ingestion has run: the ingestion was
\* neither aborted for its size nor ended by a stream error.
endHandled(r) ==
  /\ req[r].pc = "closed" /\ fileStream[r].state # "none"
  /\ ~req[r].aborted /\ ~isFailure(res[r])

\* C12: when two requests miss on the same key at the same time and the
\* upstream body of each comes to its end, both ingestions complete: each
\* publishes its payload and each request is answered with the image.
C12_SimultaneousMissesBothComplete ==
  \A r \in Req : req[r].rival # 0 /\ endHandled(r) /\ endHandled(req[r].rival)
    => /\ req[r].published /\ req[req[r].rival].published
       /\ res[r].status = 200 /\ res[req[r].rival].status = 200

\* C13: the eviction pass triggered by one request neither deletes the staging
\* file of another request whose ingestion is in flight nor counts it: with
\* the payloads within the ceiling the pass deletes no entry.
C13_StagingUntouchedByOthers ==
  [][\A q, r \in Req :
        /\ q # r /\ publishes(q)
        /\ req[r].pc = "ingest" /\ dir[tempFileOf(r)] # NoIno
        /\ cacheFileOf(r) # cacheFileOf(q)
        => /\ dir'[tempFileOf(r)] = dir[tempFileOf(r)]
           /\ payloadBytes(beforePass(q), inode) <= maxCacheBytes
                => \A k \in entries(beforePass(q)) : dir'[k] # NoIno]_vars

\* C14: at every moment a file exists at a key's final path it holds the
\* complete payload: every byte its ingestion received from the upstream.
C14_PublishedPayloadComplete ==
  \A k \in Keys : cachedBy[k] # 0
    => inode[dir[k]].data = chunkOf(cachedBy[k], req[cachedBy[k]].downloaded)

\* C15: the eviction pass that follows the ingestion of an object of at most
\* maxCacheBytes, no deletion failing, does not delete the entry just
\* published, and the request is answered 200 with the upstream content type.
C15_FreshEntrySurvivesItsPass ==
  [][\A r \in Req : publishes(r) /\ cleanPass(r) /\ req[r].downloaded <= maxCacheBytes
        => /\ dir'[cacheFileOf(r)] # NoIno
           /\ res'[r].status = 200
           /\ res'[r].contentType = req[r].contentType
           /\ ~crashed']_vars

\* C16: a request with a method other than GET is answered 405 and a GET for
\* the root path 200 with a plain-text message, and either leaves the cache
\* directory as it was and issues no upstream request: no lookup, no mtime
\* update, no staging object, no eviction.
C16_RejectedBeforeCacheWork ==
  [][\A r \in Req, method \in Methods, url \in Urls :
        proxyRequest(r, method, url) /\ (method # "GET" \/ url = RootUrl)
        => /\ UNCHANGED <<dir, inode, meta, mtimes, fileStream, warned, cachedBy>>
           /\ ~req'[r].upstream /\ req'[r].pc = "closed"
           /\ res'[r].status = (IF method # "GET" THEN 405 ELSE 200)
           /\ res'[r].contentType = "text/plain; charset=utf-8"
           /\ res'[r].ended /\ res'[r].pipe = "none"]_vars

C16_Witness ==
  \E r, q \in Req :
    /\ res[r].status = 405 /\ res[r].body = <<"Only GET supported">>
    /\ res[q].status = 200 /\ res[q].body = <<"FineImgur relay is running.">>
    /\ dir[StartEntry] = StartIno /\ mtimes = <<StartIno>>

\* The outcome of request r's ingestion, as reported to the caller.
reported(r, outcome) ==
  CASE outcome = "success" -> req[r].published /\ res[r].status = 200
    [] outcome = "oversize" ->
         isFailure(res[r]) /\ failureReason(res[r]) = "Image exceeds maximum download size."
    [] outcome = "upstream-error" ->
         isFailure(res[r]) /\ failureReason(res[r]) = "Proxy error: aborted"
    [] OTHER -> FALSE

\* C17: an ingestion whose last upstream event has been handled has reported
\* exactly one outcome among success, oversize and upstream-error, in a
\* response whose headers were written; an aborted ingestion has published
\* nothing and has no chunk left to write.
C17_ExactlyOneOutcome ==
  \A r \in Req : fileStream[r].state # "none" /\ req[r].pc = "closed"
    => /\ res[r].headersSent
       /\ Cardinality({o \in {"success", "oversize", "upstream-error"} : reported(r, o)}) = 1
       /\ req[r].aborted => ~req[r].published /\ fileStream[r].buf = <<>>

\* The 'end' handler of request r writes the response headers in this step.
answersFresh(r) == req[r].pc = "ingest" /\ ~res[r].headersSent /\ res'[r].status = 200

C19_DeleteFailureSwallowed ==
  [][\A r \in Req : publishes(r) /\ ~cleanPass(r)
        => ~crashed' /\ res'[r].status = 200]_vars

\* C20: once every write stream has finished, the size recorded in the sidecar
\* of an entry equals the byte length of its payload file and the number of
\* bytes its ingestion received from the upstream.
C20_RecordedSizeIsPayloadSize ==
  (\A q \in Req : settled(q)) =>
    \A k \in Keys : cachedBy[k] # 0
      => /\ meta[metadataPathFor(k)].size = sizeOf(inode, dir[k])
         /\ meta[metadataPathFor(k)].size = req[cachedBy[k]].downloaded
====
